---- MODULE Spec2Model ----
(***************************************************************************)
(* TWAP buyback bot: the scheduler of backend/src/services/twap.ts (the    *)
(* persisted variant, lines 175-631), the ledger of backend/src/db/        *)
(* queries.ts, the withdrawal and status routes, the deposit monitor       *)
(* (twap.ts 633-944) and withRetry of backend/src/utils/retry.ts.          *)
(*                                                                         *)
(* Every async function is split at its awaits.  A storage write takes     *)
(* effect when the query is issued; the code after the await runs in a     *)
(* later step, so any other handler can run in between.  A storage or      *)
(* chain read returns the value at the step that resumes the caller.       *)
(* Code between two awaits that touches no shared state is merged with     *)
(* the step before it.                                                     *)
(***************************************************************************)
EXTENDS Integers, Sequences, FiniteSets, TLC

\* ---------------------------------------------------------------- bounds
\* External events of one behaviour: API calls, timer ticks, deposits, process
\* restarts, and storage writes or DEX calls that fail, all draw on this budget.
MaxOps == 3
\* Handler invocations (requests and timer callbacks) in flight at once.
MaxInFlight == 2

\* ------------------------------------------------------------- constants
Wallets == {"W1", "W2"}
\* The wallet whose requests are followed; the other one only holds a deposit.
Callers == {"W1"}
NoWallet == "none"
USDC == "USDC"
MOVE == "MOVE"
Tokens == {USDC, MOVE}
NoSession == 0
NoTimer == 0
MinIntervalMs == 1000
QuoteRate == 2
NoConfig == [totalAmount |-> 0, numTrades |-> 0, intervalMs |-> 0]

\* Request bodies of POST /start: valid and invalid ones.
Configs == [totalAmount : {0, 2}, numTrades : {0, 1, 2}, intervalMs : {500, 1000}]
\* The USDC every wallet has deposited before the behaviour starts.
InitialDeposit == [w \in Wallets |-> 2]
DepositAmounts == {2}
WithdrawAmounts == {1, 2}

\* Successful transactions that can appear in the custodial account's window:
\* hash, sender, USDC received.  tx1 and tx2 are deposits, tx3 is sent by the
\* custodial wallet itself.
BotWallet == "bot"
TxHashes == {"tx1", "tx2", "tx3"}
TxOrder == <<"tx1", "tx2", "tx3">>
TxSender == [tx \in TxHashes |->
               IF tx = "tx1" THEN "W1" ELSE IF tx = "tx2" THEN "W2" ELSE BotWallet]
TxAmount == [tx \in TxHashes |-> IF tx = "tx1" THEN 2 ELSE IF tx = "tx2" THEN 1 ELSE 0]

VARIABLES
  twapConfig,            \* active config, NoConfig when null
  twapInterval,          \* handle of the recurring timer, NoTimer when null
  tradesCompleted,
  currentSessionId,      \* NoSession when null
  currentWalletAddress,  \* NoWallet when null
  timers,                \* the interval timers armed in the event loop
  sessions,              \* twap_sessions rows, id = index
  trades,                \* trades rows, one slot per slice execution
  ledger,                \* wallet_balances rows
  withdrawals,           \* withdrawal_transactions rows
  botBalance,            \* on-chain USDC of the custodial wallet
  starts,                \* startTWAP calls: position and locals
  slices,                \* executeTrade calls: position and locals
  stopCalls,             \* external stopTWAP calls awaiting their session update
  withdraws,             \* POST /withdraw calls: position and locals
  response,              \* last response returned to an API caller
  chainTxs,              \* hashes in the custodial account's transaction window
  processedTxHashes,     \* the deposit monitor's in-memory set
  initializedFromDb,
  depositTxs,            \* deposit_transactions: number of rows per tx_hash
  scans,                 \* checkForNewDeposits calls: position and locals
  seen,                  \* per hash, the process runs whose scans fetched it
  epoch,                 \* process runs so far (restarts)
  statusCalls,           \* GET /status calls awaiting their storage lookup
  statusReply,           \* last body returned by GET /status
  retries,               \* withRetry calls: position and locals
  ops                    \* external events so far

schedVars == <<twapConfig, twapInterval, tradesCompleted, currentSessionId,
               currentWalletAddress, timers>>
dbVars == <<sessions, trades, ledger, withdrawals>>
procVars == <<starts, slices, stopCalls, withdraws>>
depVars == <<chainTxs, processedTxHashes, initializedFromDb, depositTxs, scans,
             seen, epoch>>
statVars == <<statusCalls, statusReply>>
retryVars == <<retries>>
\* Everything the deposit monitor never touches.
twapVars == <<twapConfig, twapInterval, tradesCompleted, currentSessionId,
              currentWalletAddress, timers, sessions, trades, withdrawals,
              starts, slices, stopCalls, withdraws, response, statusCalls,
              statusReply, retries>>
vars == <<twapConfig, twapInterval, tradesCompleted, currentSessionId,
          currentWalletAddress, timers, sessions, trades, ledger, withdrawals,
          botBalance, starts, slices, stopCalls, withdraws, response,
          chainTxs, processedTxHashes, initializedFromDb, depositTxs, scans,
          seen, epoch, statusCalls, statusReply, retries, ops>>

\* ------------------------------------------------------------- helpers
Max(a, b) == IF a >= b THEN a ELSE b

EmptyRow == [row |-> FALSE, deposited |-> 0, withdrawn |-> 0, traded |-> 0]

\* Available with the withdrawn column left out of the sum.
AvailableIgnoringWithdrawn(l, w, t) ==
  IF ~l[w][t].row THEN 0
  ELSE Max(0, l[w][t].deposited - l[w][t].traded)

\* getWalletBalance: zeros without a row, available clamped at 0.
Available(l, w, t) ==
  IF ~l[w][t].row THEN 0
  ELSE Max(0, l[w][t].deposited - l[w][t].withdrawn - l[w][t].traded)

ZeroBalance == [deposited |-> 0, withdrawn |-> 0, traded |-> 0, available |-> 0]

\* GetWalletBalance without the clamp of available at 0.
GetWalletBalanceUnclamped(l, w, t) ==
  IF ~l[w][t].row THEN ZeroBalance
  ELSE [deposited |-> l[w][t].deposited,
        withdrawn |-> l[w][t].withdrawn,
        traded |-> l[w][t].traded,
        available |-> l[w][t].deposited - l[w][t].withdrawn - l[w][t].traded]

\* getWalletBalance: the whole summary it returns.
GetWalletBalance(l, w, t) ==
  IF ~l[w][t].row THEN ZeroBalance
  ELSE [deposited |-> l[w][t].deposited,
        withdrawn |-> l[w][t].withdrawn,
        traded |-> l[w][t].traded,
        available |-> Max(0, l[w][t].deposited - l[w][t].withdrawn - l[w][t].traded)]

\* canWithdraw
CanWithdraw(l, w, t, amount) == GetWalletBalance(l, w, t).available >= amount

\* InsufficientFor comparing with the deposited total instead of the available
\* balance.
InsufficientForDeposited(l, w, t, amount) == l[w][t].deposited < amount

\* canWithdraw / the route's check and startTWAP's check reject when this holds.
InsufficientFor(l, w, t, amount) == Available(l, w, t) < amount

\* ValidateConfig with the amount test written < 0 instead of <= 0.
ValidateConfigZeroAmount(cfg) ==
  IF cfg.totalAmount < 0 THEN "invalid_amount"
  ELSE IF cfg.numTrades <= 0 THEN "invalid_trades"
  ELSE IF cfg.intervalMs < MinIntervalMs THEN "invalid_interval"
  ELSE "ok"

\* startTWAP's validation, in the order of the code; "ok" when it passes.
ValidateConfig(cfg) ==
  IF cfg.totalAmount <= 0 THEN "invalid_amount"
  ELSE IF cfg.numTrades <= 0 THEN "invalid_trades"
  ELSE IF cfg.intervalMs < MinIntervalMs THEN "invalid_interval"
  ELSE "ok"

\* executeTrade's check of the custodial wallet's on-chain balance.
InsufficientFunds(balance, amount) == balance < amount

\* The guard testing the persisted session id instead of the timer handle.
AlreadyRunningBySession == currentSessionId # NoSession

\* The guard at the top of startTWAP.
AlreadyRunning == twapInterval # NoTimer

AmountPerTrade(cfg) == cfg.totalAmount \div cfg.numTrades

\* getTWAPStatus().isActive
IsActive == twapInterval # NoTimer \/ (twapConfig # NoConfig /\ tradesCompleted = 0)

\* An external call (a storage write, a quote, a swap) succeeds, or fails
\* while the budget allows another event (n: the events counted before it).
Outcomes(n) == IF n < MaxOps THEN {TRUE, FALSE} ELSE {TRUE}
OpsAfter(n, ok) == IF ok THEN n ELSE n + 1

DoneSlice == [pc |-> "done", amt |-> 0, out |-> 0, parent |-> 0, wallet |-> NoWallet]
DoneWithdraw == [pc |-> "done", wallet |-> NoWallet, amount |-> 0]
DoneStart == [pc |-> "done", cfg |-> NoConfig, wallet |-> NoWallet, sid |-> NoSession]
DoneStatus == [pc |-> "done", wallet |-> NoWallet]

\* startTWAP arms the recurring timer only for more than one trade.
ArmsTimer(cfg) == cfg.numTrades > 1

\* executeTrade's completion test.
ScheduleComplete == twapConfig # NoConfig /\ tradesCompleted >= twapConfig.numTrades

\* status written by stopTWAP
StopStatus == IF tradesCompleted >= twapConfig.numTrades THEN "completed" ELSE "stopped"

\* Handler invocations that have not returned: a startTWAP and the
\* executeTrade it awaits count once.
InFlight ==
  Cardinality({i \in DOMAIN starts : starts[i].pc # "done"})
  + Cardinality({i \in DOMAIN slices : slices[i].pc # "done" /\ slices[i].parent = 0})
  + Cardinality({i \in DOMAIN withdraws : withdraws[i].pc # "done"})
  + Cardinality({i \in DOMAIN statusCalls : statusCalls[i].pc # "done"})
  + stopCalls

\* A new request or timer callback can be taken up.
CanAccept == ops < MaxOps /\ InFlight < MaxInFlight

\* ------------------------------------------------------------ executeTrade
\* Entry of executeTrade with a config present: the pending trade is built
\* and insertTrade is issued with the session id sid and the wallet current
\* at the call.  n: the events counted before the write.
BeginSlice(parent, sid, n) ==
  \E ok \in Outcomes(n) :
    /\ slices' = Append(slices, [pc |-> "swap", amt |-> AmountPerTrade(twapConfig),
                                 out |-> 0, parent |-> parent, wallet |-> NoWallet])
    /\ trades' = Append(trades, [row |-> ok, session_id |-> sid,
                                 wallet_address |-> currentWalletAddress,
                                 amount_in |-> AmountPerTrade(twapConfig),
                                 amount_out |-> 0, status |-> "pending"])
    /\ ops' = OpsAfter(n, ok)

\* The return of startTWAP after its first executeTrade: the recurring timer
\* is armed when numTrades > 1.  tm, ti: timers and handle at that point.
ResumeStart(p, tm, ti) ==
  /\ starts' = [starts EXCEPT ![p] = DoneStart]
  /\ response' = "started"
  /\ IF ArmsTimer(starts[p].cfg)
       THEN timers' = tm \cup {p} /\ twapInterval' = p
       ELSE timers' = tm /\ twapInterval' = ti

\* executeTrade returns; a startTWAP awaiting it resumes in the same turn.
FinishSlice(s, tm, ti) ==
  /\ slices' = [slices EXCEPT ![s] = DoneSlice]
  /\ IF slices[s].parent # 0
       THEN ResumeStart(slices[s].parent, tm, ti)
       ELSE timers' = tm /\ twapInterval' = ti /\ UNCHANGED <<starts, response>>

\* FailSlice returning from the catch block, before the count.
FailSliceSkipsCount(s, n) ==
  \E ok \in Outcomes(n) :
    /\ trades' = IF ok /\ trades[s].row
                   THEN [trades EXCEPT ![s].status = "failed"] ELSE trades
    /\ ops' = OpsAfter(n, ok)
    /\ slices' = [slices EXCEPT ![s].pc = "check"]

\* The catch block of executeTrade: updateTradeStatus(failed) is issued.
\* n: the events counted before the write.
FailSlice(s, n) ==
  \E ok \in Outcomes(n) :
    /\ trades' = IF ok /\ trades[s].row
                   THEN [trades EXCEPT ![s].status = "failed"] ELSE trades
    /\ ops' = OpsAfter(n, ok)
    /\ slices' = [slices EXCEPT ![s].pc = "count"]

\* After insertTrade: getBalance and its check, getSwapQuote and executeSwap,
\* taken at the moment the swap is applied on chain.  Reading
\* twapConfig.tokenIn throws when the config was cleared meanwhile; the quote
\* and the swap can fail on their own.
SliceSwap(s) ==
  /\ s \in DOMAIN slices /\ slices[s].pc = "swap"
  /\ IF twapConfig = NoConfig \/ InsufficientFunds(botBalance, slices[s].amt)
       THEN FailSlice(s, ops) /\ UNCHANGED botBalance
       ELSE \/ /\ ops < MaxOps
               /\ FailSlice(s, ops + 1)
               /\ UNCHANGED botBalance
            \/ /\ botBalance' = botBalance - slices[s].amt
               /\ \E ok \in Outcomes(ops) :
                    /\ trades' = IF ok /\ trades[s].row
                                   THEN [trades EXCEPT
                                           ![s].status = "success",
                                           ![s].amount_out = QuoteRate * slices[s].amt]
                                   ELSE trades
                    /\ ops' = OpsAfter(ops, ok)
               /\ slices' = [slices EXCEPT ![s].pc = "post",
                                           ![s].out = QuoteRate * slices[s].amt]
  /\ UNCHANGED <<schedVars, sessions, ledger, withdrawals, starts, stopCalls,
                 withdraws, response>>
  /\ UNCHANGED <<depVars, statVars, retryVars>>

\* CountSlice counting the slice only when the session update succeeded.
CountSliceWhenPersisted(s) ==
  /\ \E ok \in Outcomes(ops) :
       /\ tradesCompleted' = IF ok THEN tradesCompleted + 1 ELSE tradesCompleted
       /\ sessions' = IF ok /\ currentSessionId # NoSession
                        THEN [sessions EXCEPT ![currentSessionId].trades_completed =
                                                 tradesCompleted + 1]
                        ELSE sessions
       /\ ops' = OpsAfter(ops, ok)
  /\ slices' = [slices EXCEPT ![s].pc = "check"]

\* tradeHistory.push, tradesCompleted++, updateTWAPSession({tradesCompleted}).
CountSlice(s) ==
  /\ tradesCompleted' = tradesCompleted + 1
  /\ \E ok \in Outcomes(ops) :
       /\ sessions' = IF ok /\ currentSessionId # NoSession
                        THEN [sessions EXCEPT ![currentSessionId].trades_completed =
                                                 tradesCompleted + 1]
                        ELSE sessions
       /\ ops' = OpsAfter(ops, ok)
  /\ slices' = [slices EXCEPT ![s].pc = "check"]

\* After updateTradeStatus(success): recordTrade's first statement for the
\* wallet current now, or straight on to the counting when there is none.
SlicePost(s) ==
  /\ s \in DOMAIN slices /\ slices[s].pc = "post"
  /\ IF currentWalletAddress # NoWallet /\ twapConfig # NoConfig
       THEN \E ok \in Outcomes(ops) :
              /\ ledger' = IF ok /\ ledger[currentWalletAddress][USDC].row
                             THEN [ledger EXCEPT ![currentWalletAddress][USDC].traded =
                                                    @ + slices[s].amt]
                             ELSE ledger
              /\ ops' = OpsAfter(ops, ok)
              /\ slices' = [slices EXCEPT ![s].pc = IF ok THEN "post2" ELSE "count",
                                          ![s].wallet = currentWalletAddress]
              /\ UNCHANGED <<tradesCompleted, sessions>>
       ELSE CountSlice(s) /\ UNCHANGED ledger
  /\ UNCHANGED <<twapConfig, twapInterval, currentSessionId, currentWalletAddress,
                 timers, trades, withdrawals, botBalance, starts, stopCalls,
                 withdraws, response>>
  /\ UNCHANGED <<depVars, statVars, retryVars>>

\* SlicePost2 setting deposited to the amount instead of adding it.
SlicePost2Overwrites(s) ==
  /\ s \in DOMAIN slices /\ slices[s].pc = "post2"
  /\ \E ok \in Outcomes(ops) :
       /\ ledger' = IF ok
                      THEN [ledger EXCEPT ![slices[s].wallet][MOVE].row = TRUE,
                                          ![slices[s].wallet][MOVE].deposited =
                                             slices[s].out]
                      ELSE ledger
       /\ ops' = OpsAfter(ops, ok)
  /\ slices' = [slices EXCEPT ![s].pc = "count"]
  /\ UNCHANGED <<schedVars, sessions, trades, withdrawals, botBalance, starts,
                 stopCalls, withdraws, response>>
  /\ UNCHANGED <<depVars, statVars, retryVars>>

\* recordTrade's second statement: the output token is credited as a deposit.
SlicePost2(s) ==
  /\ s \in DOMAIN slices /\ slices[s].pc = "post2"
  /\ \E ok \in Outcomes(ops) :
       /\ ledger' = IF ok
                      THEN [ledger EXCEPT ![slices[s].wallet][MOVE].row = TRUE,
                                          ![slices[s].wallet][MOVE].deposited =
                                             @ + slices[s].out]
                      ELSE ledger
       /\ ops' = OpsAfter(ops, ok)
  /\ slices' = [slices EXCEPT ![s].pc = "count"]
  /\ UNCHANGED <<schedVars, sessions, trades, withdrawals, botBalance, starts,
                 stopCalls, withdraws, response>>
  /\ UNCHANGED <<depVars, statVars, retryVars>>

SliceCount(s) ==
  /\ s \in DOMAIN slices /\ slices[s].pc = "count"
  /\ CountSlice(s)
  /\ UNCHANGED <<twapConfig, twapInterval, currentSessionId, currentWalletAddress,
                 timers, trades, ledger, withdrawals, botBalance, starts, stopCalls,
                 withdraws, response>>
  /\ UNCHANGED <<depVars, statVars, retryVars>>

\* ---------------------------------------------------------------- stopTWAP
\* The synchronous head of stopTWAP with a session id present:
\* updateTWAPSession is issued.  n: the events counted before the write.
StopWrite(n) ==
  \E ok \in Outcomes(n) :
    /\ sessions' = IF ok
                     THEN [sessions EXCEPT ![currentSessionId].status = StopStatus,
                                           ![currentSessionId].stopped_at = TRUE,
                                           ![currentSessionId].trades_completed =
                                              tradesCompleted]
                     ELSE sessions
    /\ ops' = OpsAfter(n, ok)

\* StopClear without the assignment twapConfig = null.
StopClearKeepsConfig ==
  /\ twapConfig' = twapConfig
  /\ currentSessionId' = NoSession
  /\ currentWalletAddress' = NoWallet

\* The tail of stopTWAP, after the await.
StopClear ==
  /\ twapConfig' = NoConfig
  /\ currentSessionId' = NoSession
  /\ currentWalletAddress' = NoWallet

\* The end of executeTrade: auto-completion through stopTWAP, or return.
SliceCheck(s) ==
  /\ s \in DOMAIN slices /\ slices[s].pc = "check"
  /\ IF ScheduleComplete
       THEN IF currentSessionId # NoSession
              THEN /\ StopWrite(ops)
                   /\ timers' = timers \ {twapInterval}
                   /\ twapInterval' = NoTimer
                   /\ slices' = [slices EXCEPT ![s].pc = "stopping"]
                   /\ UNCHANGED <<twapConfig, currentSessionId, currentWalletAddress,
                                  starts, response>>
              ELSE /\ StopClear
                   /\ FinishSlice(s, timers \ {twapInterval}, NoTimer)
                   /\ UNCHANGED <<sessions, ops>>
       ELSE /\ FinishSlice(s, timers, twapInterval)
            /\ UNCHANGED <<twapConfig, currentSessionId, currentWalletAddress,
                           sessions, ops>>
  /\ UNCHANGED <<tradesCompleted, trades, ledger, withdrawals, botBalance,
                 stopCalls, withdraws>>
  /\ UNCHANGED <<depVars, statVars, retryVars>>

\* stopTWAP called by executeTrade resumes after its session update.
SliceStopped(s) ==
  /\ s \in DOMAIN slices /\ slices[s].pc = "stopping"
  /\ StopClear
  /\ FinishSlice(s, timers, twapInterval)
  /\ UNCHANGED <<tradesCompleted, dbVars, botBalance, stopCalls, withdraws, ops>>
  /\ UNCHANGED <<depVars, statVars, retryVars>>

\* POST /stop.
StopCall ==
  /\ CanAccept
  /\ timers' = timers \ {twapInterval}
  /\ twapInterval' = NoTimer
  /\ IF currentSessionId # NoSession
       THEN /\ StopWrite(ops + 1)
            /\ stopCalls' = stopCalls + 1
            /\ UNCHANGED <<twapConfig, currentSessionId, currentWalletAddress, response>>
       ELSE /\ StopClear
            /\ response' = "stopped"
            /\ ops' = ops + 1
            /\ UNCHANGED <<sessions, stopCalls>>
  /\ UNCHANGED <<tradesCompleted, trades, ledger, withdrawals, botBalance, starts,
                 slices, withdraws>>
  /\ UNCHANGED <<depVars, statVars, retryVars>>

StopResume ==
  /\ stopCalls > 0
  /\ StopClear
  /\ stopCalls' = stopCalls - 1
  /\ response' = "stopped"
  /\ UNCHANGED <<twapInterval, tradesCompleted, timers, dbVars, botBalance, starts,
                 slices, withdraws, ops>>
  /\ UNCHANGED <<depVars, statVars, retryVars>>

\* --------------------------------------------------------------- startTWAP
\* startTWAP past its checks: the module state is overwritten and
\* createTWAPSession is issued; the call i waits for the id.
\* n: the events counted before the write.
AcceptStart(i, cfg, w, n) ==
  /\ twapConfig' = cfg
  /\ tradesCompleted' = 0
  /\ currentWalletAddress' = w
  /\ \E ok \in Outcomes(n) :
       /\ sessions' = IF ok
                        THEN Append(sessions, [wallet |-> w, total_trades |-> cfg.numTrades,
                                               trades_completed |-> 0, status |-> "active",
                                               stopped_at |-> FALSE])
                        ELSE sessions
       /\ starts' = [j \in 1..Max(i, Len(starts)) |->
                       IF j = i
                         THEN [pc |-> "created", cfg |-> cfg, wallet |-> w,
                               sid |-> IF ok THEN Len(sessions) + 1 ELSE NoSession]
                         ELSE starts[j]]
       /\ ops' = OpsAfter(n, ok)

\* POST /start reaching startTWAP: the already-running guard, the validation,
\* then the balance read (awaited) when a wallet address was given.
StartCall(cfg, w) ==
  /\ CanAccept
  /\ IF AlreadyRunning
       THEN /\ response' = "already_running"
            /\ ops' = ops + 1
            /\ UNCHANGED <<twapConfig, tradesCompleted, currentWalletAddress, sessions,
                           starts>>
       ELSE IF ValidateConfig(cfg) # "ok"
         THEN /\ response' = ValidateConfig(cfg)
              /\ ops' = ops + 1
              /\ UNCHANGED <<twapConfig, tradesCompleted, currentWalletAddress, sessions,
                             starts>>
         ELSE IF w # NoWallet
           THEN /\ starts' = Append(starts, [pc |-> "balance", cfg |-> cfg, wallet |-> w,
                                             sid |-> NoSession])
                /\ ops' = ops + 1
                /\ UNCHANGED <<twapConfig, tradesCompleted, currentWalletAddress, sessions,
                               response>>
           ELSE /\ AcceptStart(Len(starts) + 1, cfg, w, ops + 1)
                /\ UNCHANGED response
  /\ UNCHANGED <<twapInterval, currentSessionId, timers, trades, ledger, withdrawals,
                 botBalance, slices, stopCalls, withdraws>>
  /\ UNCHANGED <<depVars, statVars, retryVars>>

\* getWalletBalance returned: insufficient deposited balance rejects the start.
StartBalance(i) ==
  /\ i \in DOMAIN starts /\ starts[i].pc = "balance"
  /\ IF InsufficientFor(ledger, starts[i].wallet, USDC, starts[i].cfg.totalAmount)
       THEN /\ response' = "insufficient_balance"
            /\ starts' = [starts EXCEPT ![i] = DoneStart]
            /\ UNCHANGED <<twapConfig, tradesCompleted, currentWalletAddress, sessions, ops>>
       ELSE /\ AcceptStart(i, starts[i].cfg, starts[i].wallet, ops)
            /\ UNCHANGED response
  /\ UNCHANGED <<twapInterval, currentSessionId, timers, trades, ledger, withdrawals,
                 botBalance, slices, stopCalls, withdraws>>
  /\ UNCHANGED <<depVars, statVars, retryVars>>

\* The session id startTWAP holds after createTWAPSession returned or threw.
SessionIdAfterCreate(i) ==
  IF starts[i].sid # NoSession THEN starts[i].sid ELSE currentSessionId

\* createTWAPSession returned (or threw): the session id is stored and the
\* first executeTrade is called.  With no config left it returns at once and
\* startTWAP goes on to arm the timer.
StartCreated(i) ==
  /\ i \in DOMAIN starts /\ starts[i].pc = "created"
  /\ currentSessionId' = SessionIdAfterCreate(i)
  /\ IF twapConfig # NoConfig
       THEN /\ BeginSlice(i, SessionIdAfterCreate(i), ops)
            /\ starts' = [starts EXCEPT ![i].pc = "wait"]
            /\ UNCHANGED <<timers, twapInterval, response>>
       ELSE /\ ResumeStart(i, timers, twapInterval)
            /\ UNCHANGED <<slices, trades, ops>>
  /\ UNCHANGED <<twapConfig, tradesCompleted, currentWalletAddress, sessions, ledger,
                 withdrawals, botBalance, stopCalls, withdraws>>
  /\ UNCHANGED <<depVars, statVars, retryVars>>

\* The recurring timer t fires executeTrade.
Tick(t) ==
  /\ t \in timers
  /\ CanAccept
  /\ IF twapConfig # NoConfig
       THEN BeginSlice(0, currentSessionId, ops + 1)
       ELSE ops' = ops + 1 /\ UNCHANGED <<slices, trades>>
  /\ UNCHANGED <<schedVars, sessions, ledger, withdrawals, botBalance, starts,
                 stopCalls, withdraws, response>>
  /\ UNCHANGED <<depVars, statVars, retryVars>>

\* ------------------------------------------------------------------ ledger
\* A deposit to the custodial wallet, credited by recordDeposit.
Deposit(w, a) ==
  /\ ops < MaxOps
  /\ ops' = ops + 1
  /\ botBalance' = botBalance + a
  /\ ledger' = [ledger EXCEPT ![w][USDC].row = TRUE, ![w][USDC].deposited = @ + a]
  /\ UNCHANGED <<schedVars, sessions, trades, withdrawals, procVars, response>>
  /\ UNCHANGED <<depVars, statVars, retryVars>>

\* POST /withdraw for USDC.
WithdrawCall(w, a) ==
  /\ CanAccept
  /\ ops' = ops + 1
  /\ withdraws' = Append(withdraws, [pc |-> "balance", wallet |-> w, amount |-> a])
  /\ UNCHANGED <<schedVars, dbVars, botBalance, starts, slices, stopCalls, response>>
  /\ UNCHANGED <<depVars, statVars, retryVars>>

\* getWalletBalance returned: the ledger check.
WithdrawBalance(k) ==
  /\ k \in DOMAIN withdraws /\ withdraws[k].pc = "balance"
  /\ IF InsufficientFor(ledger, withdraws[k].wallet, USDC, withdraws[k].amount)
       THEN /\ response' = "withdraw_insufficient"
            /\ withdraws' = [withdraws EXCEPT ![k] = DoneWithdraw]
       ELSE /\ withdraws' = [withdraws EXCEPT ![k].pc = "bot"]
            /\ UNCHANGED response
  /\ UNCHANGED <<schedVars, dbVars, botBalance, starts, slices, stopCalls, ops>>
  /\ UNCHANGED <<depVars, statVars, retryVars>>

\* getBalance returned: the custodial wallet check, then withdrawTokens submits.
WithdrawBot(k) ==
  /\ k \in DOMAIN withdraws /\ withdraws[k].pc = "bot"
  /\ IF botBalance < withdraws[k].amount
       THEN /\ response' = "bot_insufficient"
            /\ withdraws' = [withdraws EXCEPT ![k] = DoneWithdraw]
       ELSE /\ withdraws' = [withdraws EXCEPT ![k].pc = "transfer"]
            /\ UNCHANGED response
  /\ UNCHANGED <<schedVars, dbVars, botBalance, starts, slices, stopCalls, ops>>
  /\ UNCHANGED <<depVars, statVars, retryVars>>

\* WithdrawTransfer with recordWithdrawal's ledger update applied before the
\* transfer is known to have succeeded.
WithdrawTransferRecordsFirst(k) ==
  /\ k \in DOMAIN withdraws /\ withdraws[k].pc = "transfer"
  /\ IF botBalance < withdraws[k].amount
       THEN /\ response' = "withdraw_error"
            /\ withdraws' = [withdraws EXCEPT ![k] = DoneWithdraw]
            /\ ledger' = [ledger EXCEPT ![withdraws[k].wallet][USDC].withdrawn =
                                          @ + withdraws[k].amount]
            /\ UNCHANGED <<botBalance, ops>>
       ELSE \/ /\ ops < MaxOps
               /\ ops' = ops + 1
               /\ response' = "withdraw_error"
               /\ withdraws' = [withdraws EXCEPT ![k] = DoneWithdraw]
               /\ ledger' = [ledger EXCEPT ![withdraws[k].wallet][USDC].withdrawn =
                                             @ + withdraws[k].amount]
               /\ UNCHANGED botBalance
            \/ /\ botBalance' = botBalance - withdraws[k].amount
               /\ \E ok \in Outcomes(ops) :
                    /\ ledger' = IF ok /\ ledger[withdraws[k].wallet][USDC].row
                                   THEN [ledger EXCEPT
                                           ![withdraws[k].wallet][USDC].withdrawn =
                                              @ + withdraws[k].amount]
                                   ELSE ledger
                    /\ ops' = OpsAfter(ops, ok)
                    /\ withdraws' = [withdraws EXCEPT
                                       ![k].pc = IF ok THEN "record" ELSE "error"]
               /\ UNCHANGED response
  /\ UNCHANGED <<schedVars, sessions, trades, withdrawals, starts, slices, stopCalls>>
  /\ UNCHANGED <<depVars, statVars, retryVars>>

\* withdrawTokens returned: it threw (the transfer failed), or the transfer is
\* confirmed and recordWithdrawal's first statement runs.
WithdrawTransfer(k) ==
  /\ k \in DOMAIN withdraws /\ withdraws[k].pc = "transfer"
  /\ IF botBalance < withdraws[k].amount
       THEN /\ response' = "withdraw_error"
            /\ withdraws' = [withdraws EXCEPT ![k] = DoneWithdraw]
            /\ UNCHANGED <<botBalance, ledger, ops>>
       ELSE \/ /\ ops < MaxOps
               /\ ops' = ops + 1
               /\ response' = "withdraw_error"
               /\ withdraws' = [withdraws EXCEPT ![k] = DoneWithdraw]
               /\ UNCHANGED <<botBalance, ledger>>
            \/ /\ botBalance' = botBalance - withdraws[k].amount
               /\ \E ok \in Outcomes(ops) :
                    /\ ledger' = IF ok /\ ledger[withdraws[k].wallet][USDC].row
                                   THEN [ledger EXCEPT
                                           ![withdraws[k].wallet][USDC].withdrawn =
                                              @ + withdraws[k].amount]
                                   ELSE ledger
                    /\ ops' = OpsAfter(ops, ok)
                    /\ withdraws' = [withdraws EXCEPT
                                       ![k].pc = IF ok THEN "record" ELSE "error"]
               /\ UNCHANGED response
  /\ UNCHANGED <<schedVars, sessions, trades, withdrawals, starts, slices, stopCalls>>
  /\ UNCHANGED <<depVars, statVars, retryVars>>

\* recordWithdrawal's insert into withdrawal_transactions, or the 500 response
\* after its first statement threw.
WithdrawRecord(k) ==
  /\ k \in DOMAIN withdraws /\ withdraws[k].pc \in {"record", "error"}
  /\ IF withdraws[k].pc = "error"
       THEN /\ response' = "withdraw_error"
            /\ UNCHANGED <<withdrawals, ops>>
       ELSE \E ok \in Outcomes(ops) :
              /\ withdrawals' = IF ok
                                  THEN Append(withdrawals,
                                              [wallet |-> withdraws[k].wallet,
                                               amount |-> withdraws[k].amount,
                                               status |-> "success"])
                                  ELSE withdrawals
              /\ response' = IF ok THEN "withdrawn" ELSE "withdraw_error"
              /\ ops' = OpsAfter(ops, ok)
  /\ withdraws' = [withdraws EXCEPT ![k] = DoneWithdraw]
  /\ UNCHANGED <<schedVars, sessions, trades, ledger, botBalance, starts, slices,
                 stopCalls>>
  /\ UNCHANGED <<depVars, statVars, retryVars>>

\* ----------------------------------------------------------------- restart
\* getActiveSession(): the active session with the highest id, 0 when none.
ActiveSessionId(ss) ==
  LET act == {i \in DOMAIN ss : ss[i].status = "active"}
  IN IF act = {} THEN NoSession ELSE CHOOSE i \in act : \A j \in act : j <= i

\* restoreActiveSession: the session found is marked stopped, never resumed.
RestoreActiveSession(ss) ==
  IF ActiveSessionId(ss) = NoSession THEN ss
  ELSE [ss EXCEPT ![ActiveSessionId(ss)].status = "stopped",
                  ![ActiveSessionId(ss)].stopped_at = TRUE]

\* The process dies and is started again: module state is reinitialised, every
\* call in flight is lost, and startup() runs restoreActiveSession before the
\* server listens.
Restart ==
  /\ ops < MaxOps
  /\ twapConfig' = NoConfig
  /\ twapInterval' = NoTimer
  /\ tradesCompleted' = 0
  /\ currentSessionId' = NoSession
  /\ currentWalletAddress' = NoWallet
  /\ timers' = {}
  /\ starts' = <<>>
  /\ slices' = [s \in DOMAIN slices |-> DoneSlice]
  /\ stopCalls' = 0
  /\ withdraws' = <<>>
  /\ response' = "none"
  /\ \E ok \in Outcomes(ops + 1) :
       /\ sessions' = IF ok THEN RestoreActiveSession(sessions) ELSE sessions
       /\ ops' = OpsAfter(ops + 1, ok)
  /\ UNCHANGED <<trades, ledger, withdrawals, botBalance>>
  /\ statusCalls' = [k \in DOMAIN statusCalls |-> DoneStatus]
  /\ UNCHANGED <<depVars, statusReply, retryVars>>

\* ------------------------------------------------------------ GET /status
NoReply == [source |-> "none", owner |-> NoWallet, isActive |-> FALSE,
            tradesCompleted |-> 0, totalTrades |-> 0]

\* The explicit inactive body of the route.
InactiveSnapshot == [source |-> "inactive", owner |-> NoWallet, isActive |-> FALSE,
                     tradesCompleted |-> 0, totalTrades |-> 0]

\* getTWAPStatus(): the in-process snapshot; owner is its walletAddress.
ProcessSnapshot == [source |-> "process", owner |-> currentWalletAddress,
                    isActive |-> IsActive, tradesCompleted |-> tradesCompleted,
                    totalTrades |-> twapConfig.numTrades]

\* getActiveSession(walletAddress): the wallet's active session with the
\* highest id, NoSession when none.
ActiveSessionIdFor(ss, w) ==
  LET act == {i \in DOMAIN ss : ss[i].status = "active" /\ ss[i].wallet = w}
  IN IF act = {} THEN NoSession ELSE CHOOSE i \in act : \A j \in act : j <= i

\* getActiveSessionForWallet: the body built from the row found; owner is the
\* row's wallet_address.
StoredSnapshot(ss, id) == [source |-> "storage", owner |-> ss[id].wallet,
                           isActive |-> TRUE,
                           tradesCompleted |-> ss[id].trades_completed,
                           totalTrades |-> ss[id].total_trades]

\* ActiveInProcessFor without the comparison of the wallet address.
ActiveInProcessForAnyWallet(w) == IsActive

\* The route's test for answering from the process.
ActiveInProcessFor(w) == IsActive /\ currentWalletAddress = w

\* GET /status?walletAddress=w (w = NoWallet: no address given).
StatusCall(w) ==
  /\ CanAccept
  /\ ops' = ops + 1
  /\ IF w = NoWallet \/ ActiveInProcessFor(w)
       THEN statusReply' = ProcessSnapshot /\ UNCHANGED statusCalls
       ELSE /\ statusCalls' = Append(statusCalls, [pc |-> "db", wallet |-> w])
            /\ UNCHANGED statusReply
  /\ UNCHANGED <<schedVars, dbVars, botBalance, procVars, response>>
  /\ UNCHANGED <<depVars, retryVars>>

\* getActiveSessionForWallet returned: the stored session, or the inactive
\* body when there is none or the lookup threw.
StatusDb(k) ==
  /\ k \in DOMAIN statusCalls /\ statusCalls[k].pc = "db"
  /\ \E ok \in Outcomes(ops) :
       /\ statusReply' =
            IF ok /\ ActiveSessionIdFor(sessions, statusCalls[k].wallet) # NoSession
              THEN StoredSnapshot(sessions,
                                  ActiveSessionIdFor(sessions, statusCalls[k].wallet))
              ELSE InactiveSnapshot
       /\ ops' = OpsAfter(ops, ok)
  /\ statusCalls' = [statusCalls EXCEPT ![k] = DoneStatus]
  /\ UNCHANGED <<schedVars, dbVars, botBalance, procVars, response>>
  /\ UNCHANGED <<depVars, retryVars>>

\* --------------------------------------------------------- deposit monitor
DoneScan == [pc |-> "done", todo |-> <<>>]

ScansInFlight == Cardinality({k \in DOMAIN scans : scans[k].pc # "done"})

\* getAccountTransactions: the window in the order the node returns it.
WindowOf(txs) == SelectSeq(TxOrder, LAMBDA tx : tx \in txs)

\* getAllDepositTxHashes: the hashes with a deposit_transactions row.
AllDepositTxHashes(rows) == {tx \in TxHashes : rows[tx] > 0}

\* getDepositByTxHash(tx) returns a row.
ExistingDeposit(rows, tx) == rows[tx] > 0

\* The test for a transaction sent by the custodial wallet.
IsOutgoing(tx) == TxSender[tx] = BotWallet

\* The head of the scan loop: hashes already in the processed set are skipped,
\* and so are the custodial wallet's own transactions.
RECURSIVE SkipProcessed(_, _)
SkipProcessed(todo, processed) ==
  IF todo = <<>> THEN <<>>
  ELSE IF Head(todo) \in processed \/ IsOutgoing(Head(todo))
    THEN SkipProcessed(Tail(todo), processed)
  ELSE todo

\* MarkOutgoing without the mark on outgoing transactions.
RECURSIVE MarkOutgoingSkipsOnly(_, _)
MarkOutgoingSkipsOnly(todo, processed) == processed

\* The processed set once the loop has run on to its next await or to its end:
\* every outgoing transaction passed on the way is marked processed.
RECURSIVE MarkOutgoing(_, _)
MarkOutgoing(todo, processed) ==
  IF todo = <<>> THEN processed
  ELSE IF Head(todo) \in processed THEN MarkOutgoing(Tail(todo), processed)
  ELSE IF IsOutgoing(Head(todo))
    THEN MarkOutgoing(Tail(todo), processed \cup {Head(todo)})
  ELSE processed

\* The scan goes on with the hashes left: it awaits getDepositByTxHash for the
\* next unprocessed one, or returns.
ContinueScan(todo, processed) ==
  IF SkipProcessed(todo, processed) = <<>> THEN DoneScan
  ELSE [pc |-> "lookup", todo |-> SkipProcessed(todo, processed)]

\* recordDeposit's first statement: the upsert of wallet_balances.
CreditDeposit(l, w, t, amount) ==
  [l EXCEPT ![w][t].row = TRUE, ![w][t].deposited = @ + amount]

\* recordDeposit's second statement: deposit_transactions has no unique
\* constraint on tx_hash, the insert always adds a row.
InsertDepositTx(rows, tx) == [rows EXCEPT ![tx] = @ + 1]

\* A user's transfer to the custodial wallet lands on chain.
ChainDeposit(tx) ==
  /\ tx \in TxHashes \ chainTxs
  /\ chainTxs' = chainTxs \cup {tx}
  /\ botBalance' = botBalance + TxAmount[tx]
  /\ UNCHANGED <<twapVars, ledger, processedTxHashes, initializedFromDb, depositTxs,
                 scans, seen, epoch, ops>>

\* checkForNewDeposits is called (monitor timer, startup, POST /scan-deposits):
\* it awaits initializeProcessedTxHashes, which returns at once when the set
\* was loaded before, and then getAccountTransactions.
ScanCall ==
  /\ ops < MaxOps /\ ScansInFlight < MaxInFlight
  /\ ops' = ops + 1
  /\ scans' = Append(scans, [pc |-> IF initializedFromDb THEN "fetch" ELSE "init",
                             todo |-> <<>>])
  /\ UNCHANGED <<twapVars, ledger, botBalance, chainTxs, processedTxHashes,
                 initializedFromDb, depositTxs, seen, epoch>>

\* getAllDepositTxHashes returned or threw (the error is only logged).
ScanInit(k) ==
  /\ k \in DOMAIN scans /\ scans[k].pc = "init"
  /\ \E ok \in Outcomes(ops) :
       /\ processedTxHashes' = IF ok
                                 THEN processedTxHashes \cup AllDepositTxHashes(depositTxs)
                                 ELSE processedTxHashes
       /\ initializedFromDb' = (initializedFromDb \/ ok)
       /\ ops' = OpsAfter(ops, ok)
  /\ scans' = [scans EXCEPT ![k].pc = "fetch"]
  /\ UNCHANGED <<twapVars, ledger, botBalance, chainTxs, depositTxs, seen, epoch>>

\* getAccountTransactions returned the window, or threw and the scan ends.
ScanFetch(k) ==
  /\ k \in DOMAIN scans /\ scans[k].pc = "fetch"
  /\ \E ok \in Outcomes(ops) :
       /\ scans' = [scans EXCEPT ![k] =
                      IF ok THEN ContinueScan(WindowOf(chainTxs), processedTxHashes)
                      ELSE DoneScan]
       /\ seen' = IF ok
                    THEN [tx \in TxHashes |->
                            IF tx \in chainTxs THEN seen[tx] \cup {epoch} ELSE seen[tx]]
                    ELSE seen
       /\ processedTxHashes' = IF ok
                                 THEN MarkOutgoing(WindowOf(chainTxs), processedTxHashes)
                                 ELSE processedTxHashes
       /\ ops' = OpsAfter(ops, ok)
  /\ UNCHANGED <<twapVars, ledger, botBalance, chainTxs, initializedFromDb, depositTxs,
                 epoch>>

\* getDepositByTxHash returned: a known hash is only marked processed; for a
\* new one recordDeposit is called and its upsert issued.  An error thrown by
\* either query leaves the loop and ends the scan.
ScanLookup(k) ==
  /\ k \in DOMAIN scans /\ scans[k].pc = "lookup"
  /\ LET tx == Head(scans[k].todo)
     IN \/ /\ ops < MaxOps
           /\ ops' = ops + 1
           /\ scans' = [scans EXCEPT ![k] = DoneScan]
           /\ UNCHANGED <<ledger, processedTxHashes>>
        \/ /\ ExistingDeposit(depositTxs, tx)
           /\ processedTxHashes' = MarkOutgoing(Tail(scans[k].todo),
                                                processedTxHashes \cup {tx})
           /\ scans' = [scans EXCEPT ![k] =
                          ContinueScan(Tail(scans[k].todo), processedTxHashes \cup {tx})]
           /\ UNCHANGED <<ledger, ops>>
        \/ /\ ~ExistingDeposit(depositTxs, tx)
           /\ \E ok \in Outcomes(ops) :
                /\ ledger' = IF ok THEN CreditDeposit(ledger, TxSender[tx], USDC, TxAmount[tx])
                             ELSE ledger
                /\ scans' = [scans EXCEPT ![k] =
                               IF ok THEN [scans[k] EXCEPT !.pc = "insert"] ELSE DoneScan]
                /\ ops' = OpsAfter(ops, ok)
           /\ UNCHANGED processedTxHashes
  /\ UNCHANGED <<twapVars, botBalance, chainTxs, initializedFromDb, depositTxs, seen,
                 epoch>>

\* The upsert returned: recordDeposit issues the deposit_transactions insert.
ScanInsert(k) ==
  /\ k \in DOMAIN scans /\ scans[k].pc = "insert"
  /\ \E ok \in Outcomes(ops) :
       /\ depositTxs' = IF ok THEN InsertDepositTx(depositTxs, Head(scans[k].todo))
                        ELSE depositTxs
       /\ scans' = [scans EXCEPT ![k] =
                      IF ok THEN [scans[k] EXCEPT !.pc = "recorded"] ELSE DoneScan]
       /\ ops' = OpsAfter(ops, ok)
  /\ UNCHANGED <<twapVars, ledger, botBalance, chainTxs, processedTxHashes,
                 initializedFromDb, seen, epoch>>

\* recordDeposit returned: the hash is marked processed and the loop goes on.
ScanRecorded(k) ==
  /\ k \in DOMAIN scans /\ scans[k].pc = "recorded"
  /\ processedTxHashes' = MarkOutgoing(Tail(scans[k].todo),
                                       processedTxHashes \cup {Head(scans[k].todo)})
  /\ scans' = [scans EXCEPT ![k] =
                 ContinueScan(Tail(scans[k].todo),
                              processedTxHashes \cup {Head(scans[k].todo)})]
  /\ UNCHANGED <<twapVars, ledger, botBalance, chainTxs, initializedFromDb, depositTxs,
                 seen, epoch, ops>>

\* The process dies and is started again: the processed set and the scans in
\* flight are lost, storage and chain are kept.
RestartMonitor ==
  /\ ops < MaxOps
  /\ ops' = ops + 1
  /\ processedTxHashes' = {}
  /\ initializedFromDb' = FALSE
  /\ scans' = <<>>
  /\ epoch' = epoch + 1
  /\ UNCHANGED <<twapVars, ledger, botBalance, chainTxs, depositTxs, seen>>

\* ------------------------------------------------------------- withRetry
\* Messages of the errors an external call can throw, each with the lower-case
\* patterns of the retry lists that occur in it.
ErrorMessages == {"Request timeout", "HTTP 503 Service Unavailable",
                  "Sequence number too old", "INSUFFICIENT_BALANCE"}
PatternsIn == [m \in ErrorMessages |->
                 IF m = "Request timeout" THEN {"timeout"}
                 ELSE IF m = "HTTP 503 Service Unavailable" THEN {"503"}
                 ELSE IF m = "Sequence number too old" THEN {"sequence number"}
                 ELSE {}]
NoError == "none"
CallOk == "ok"

\* The options withRPCRetry and withTxRetry pass to withRetry; the backoff
\* multiplier is kept as a fraction.
RPCOptions == [maxAttempts |-> 3, initialDelayMs |-> 1000, maxDelayMs |-> 10000,
               multNum |-> 2, multDen |-> 1,
               retryableErrors |-> {"timeout", "econnreset", "econnrefused",
                                    "socket hang up", "network", "rate limit", "429",
                                    "502", "503", "504", "too many requests"}]
TxOptions == [maxAttempts |-> 2, initialDelayMs |-> 2000, maxDelayMs |-> 5000,
              multNum |-> 3, multDen |-> 2,
              retryableErrors |-> {"timeout", "econnreset", "network",
                                   "sequence number", "transaction expired"}]

\* The operations run under withRetry: getSwapQuote's request and getBalance's
\* closure under withRPCRetry, executeSwap's submission under withTxRetry.
RetryOperations == {"quote", "balance", "swap"}
OptionsOf(op) == IF op = "swap" THEN TxOptions ELSE RPCOptions

\* isRetryableError: some pattern of the list occurs in the message.
IsRetryableError(msg, patterns) == \E p \in patterns : p \in PatternsIn[msg]

Min(a, b) == IF a <= b THEN a ELSE b

\* The delay after one more backoff step.
NextDelay(delay, opts) == Min((delay * opts.multNum) \div opts.multDen, opts.maxDelayMs)

\* What the operation handed to withRetry does with the outcome of its
\* external call.  getBalance's closure catches every error of
\* getAccountResources and returns the balances it initialised to 0.
OperationResult(op, outcome) ==
  IF op = "balance"
    THEN [ok |-> TRUE, value |-> IF outcome = CallOk THEN botBalance ELSE 0,
          error |-> NoError]
    ELSE IF outcome = CallOk
      THEN [ok |-> TRUE, value |-> 1, error |-> NoError]
      ELSE [ok |-> FALSE, value |-> 0, error |-> outcome]

\* withRetry is entered: attempt 1 is about to run.
RetryCall(op) ==
  /\ ops < MaxOps
  /\ ops' = ops + 1
  /\ retries' = Append(retries, [op |-> op, pc |-> "attempt", attempt |-> 1,
                                 delay |-> OptionsOf(op).initialDelayMs,
                                 outcome |-> NoError, value |-> 0, error |-> NoError])
  /\ UNCHANGED <<schedVars, dbVars, botBalance, procVars, response, depVars, statVars>>

\* RetryAttempt without the test of the error against the retryable patterns.
RetryAttemptAnyError(k, outcome) ==
  /\ k \in DOMAIN retries /\ retries[k].pc = "attempt"
  /\ LET r == retries[k]
         res == OperationResult(r.op, outcome)
         opts == OptionsOf(r.op)
     IN retries' = [retries EXCEPT ![k] =
          IF res.ok
            THEN [r EXCEPT !.pc = "returned", !.outcome = outcome, !.value = res.value,
                           !.error = NoError]
          ELSE IF r.attempt = opts.maxAttempts
            THEN [r EXCEPT !.pc = "thrown", !.outcome = outcome, !.error = res.error]
          ELSE [r EXCEPT !.pc = "sleep", !.outcome = outcome, !.error = res.error]]
  /\ UNCHANGED <<schedVars, dbVars, botBalance, procVars, response, depVars, statVars,
                 ops>>

\* One pass of the loop: the operation is awaited; its result is returned, or
\* its error is rethrown on the last attempt or when it is not retryable, or
\* the call goes to sleep for the current delay.
RetryAttempt(k, outcome) ==
  /\ k \in DOMAIN retries /\ retries[k].pc = "attempt"
  /\ LET r == retries[k]
         res == OperationResult(r.op, outcome)
         opts == OptionsOf(r.op)
     IN retries' = [retries EXCEPT ![k] =
          IF res.ok
            THEN [r EXCEPT !.pc = "returned", !.outcome = outcome, !.value = res.value,
                           !.error = NoError]
          ELSE IF r.attempt = opts.maxAttempts
                  \/ ~IsRetryableError(res.error, opts.retryableErrors)
            THEN [r EXCEPT !.pc = "thrown", !.outcome = outcome, !.error = res.error]
          ELSE [r EXCEPT !.pc = "sleep", !.outcome = outcome, !.error = res.error]]
  /\ UNCHANGED <<schedVars, dbVars, botBalance, procVars, response, depVars, statVars,
                 ops>>

\* sleep(delay) is over: the delay is raised and the next attempt starts.
RetryWake(k) ==
  /\ k \in DOMAIN retries /\ retries[k].pc = "sleep"
  /\ retries' = [retries EXCEPT ![k].pc = "attempt",
                                ![k].attempt = @ + 1,
                                ![k].delay = NextDelay(@, OptionsOf(retries[k].op))]
  /\ UNCHANGED <<schedVars, dbVars, botBalance, procVars, response, depVars, statVars,
                 ops>>

Init ==
  /\ twapConfig = NoConfig
  /\ twapInterval = NoTimer
  /\ tradesCompleted = 0
  /\ currentSessionId = NoSession
  /\ currentWalletAddress = NoWallet
  /\ timers = {}
  /\ sessions = <<>>
  /\ trades = <<>>
  /\ ledger = [w \in Wallets |-> [t \in Tokens |->
                 IF t = USDC THEN [EmptyRow EXCEPT !.row = TRUE, !.deposited = InitialDeposit[w]]
                 ELSE EmptyRow]]
  /\ withdrawals = <<>>
  /\ botBalance = InitialDeposit["W1"] + InitialDeposit["W2"]
  /\ starts = <<>>
  /\ slices = <<>>
  /\ stopCalls = 0
  /\ withdraws = <<>>
  /\ response = "none"
  /\ chainTxs = {}
  /\ processedTxHashes = {}
  /\ initializedFromDb = FALSE
  /\ depositTxs = [tx \in TxHashes |-> 0]
  /\ scans = <<>>
  /\ seen = [tx \in TxHashes |-> {}]
  /\ epoch = 0
  /\ statusCalls = <<>>
  /\ statusReply = NoReply
  /\ retries = <<>>
  /\ ops = 0

Next ==
  \/ \E cfg \in Configs, w \in Callers \cup {NoWallet} : StartCall(cfg, w)
  \/ \E i \in DOMAIN starts : StartBalance(i)
  \/ \E i \in DOMAIN starts : StartCreated(i)
  \/ \E t \in timers : Tick(t)
  \/ \E s \in DOMAIN slices : SliceSwap(s)
  \/ \E s \in DOMAIN slices : SlicePost(s)
  \/ \E s \in DOMAIN slices : SlicePost2(s)
  \/ \E s \in DOMAIN slices : SliceCount(s)
  \/ \E s \in DOMAIN slices : SliceCheck(s)
  \/ \E s \in DOMAIN slices : SliceStopped(s)
  \/ StopCall
  \/ StopResume
  \/ \E w \in Callers, a \in DepositAmounts : Deposit(w, a)
  \/ \E w \in Callers, a \in WithdrawAmounts : WithdrawCall(w, a)
  \/ \E k \in DOMAIN withdraws : WithdrawBalance(k)
  \/ \E k \in DOMAIN withdraws : WithdrawBot(k)
  \/ \E k \in DOMAIN withdraws : WithdrawTransfer(k)
  \/ \E k \in DOMAIN withdraws : WithdrawRecord(k)
  \/ Restart

Spec == Init /\ [][Next]_vars

\* The scheduler together with the status route.
NextStatus ==
  \/ Next
  \/ \E w \in Wallets \cup {NoWallet} : StatusCall(w)
  \/ \E k \in DOMAIN statusCalls : StatusDb(k)

SpecStatus == Init /\ [][NextStatus]_vars

\* The deposit monitor on its own.
NextDeposits ==
  \/ \E tx \in TxHashes : ChainDeposit(tx)
  \/ ScanCall
  \/ \E k \in DOMAIN scans : ScanInit(k)
  \/ \E k \in DOMAIN scans : ScanFetch(k)
  \/ \E k \in DOMAIN scans : ScanLookup(k)
  \/ \E k \in DOMAIN scans : ScanInsert(k)
  \/ \E k \in DOMAIN scans : ScanRecorded(k)
  \/ RestartMonitor

SpecDeposits == Init /\ [][NextDeposits]_vars

\* withRetry and the operations run under it, on their own.
NextRetry ==
  \/ \E op \in RetryOperations : RetryCall(op)
  \/ \E k \in DOMAIN retries, outcome \in ErrorMessages \cup {CallOk} :
       RetryAttempt(k, outcome)
  \/ \E k \in DOMAIN retries : RetryWake(k)

SpecRetry == Init /\ [][NextRetry]_vars

\* ================================================================== claims

\* C1: in every reachable state at most one persisted session per wallet
\* address has status 'active'.
C1_OneActiveSessionPerWallet ==
  \A w \in Wallets :
    Cardinality({i \in DOMAIN sessions :
                   sessions[i].status = "active" /\ sessions[i].wallet = w}) <= 1

\* C2: 0 <= tradesCompleted <= numTrades in every reachable state, for the
\* in-process counter of the current schedule and for the persisted
\* trades_completed of every session.
C2_CompletedWithinNumTrades ==
  /\ twapConfig # NoConfig =>
       0 <= tradesCompleted /\ tradesCompleted <= twapConfig.numTrades
  /\ \A i \in DOMAIN sessions :
       /\ 0 <= sessions[i].trades_completed
       /\ sessions[i].trades_completed <= sessions[i].total_trades

\* C3: once a persisted session's status is completed, stopped or failed, no
\* step of the program changes that session's status.
C3_TerminalStatusImmutable ==
  [][\A i \in DOMAIN sessions :
       sessions[i].status \in {"completed", "stopped", "failed"} =>
         sessions'[i].status = sessions[i].status]_vars

\* C4: for every wallet and token, deposited - withdrawn - traded >= 0 in
\* every reachable state.
C4_AvailableNeverNegative ==
  \A w \in Wallets, t \in Tokens :
    ledger[w][t].deposited - ledger[w][t].withdrawn - ledger[w][t].traded >= 0

\* C5: a deposit transaction fetched by scans of two process runs (before and
\* after a restart) and handled by the scan of the current run has credited
\* the sender's deposited balance exactly once and has exactly one
\* deposit_transactions row.
C5_RescanAfterRestartCreditsOnce ==
  \A tx \in TxHashes :
    (~IsOutgoing(tx) /\ Cardinality(seen[tx]) >= 2 /\ tx \in processedTxHashes) =>
      /\ ledger[TxSender[tx]][USDC].deposited = InitialDeposit[TxSender[tx]] + TxAmount[tx]
      /\ depositTxs[tx] = 1

\* C6: when recordDeposit has run twice for the same txHash (two rows of
\* deposit_transactions carry it), deposited has increased by the amount once,
\* not twice.
C6_RecordDepositTwiceCreditsOnce ==
  \A tx \in TxHashes :
    (~IsOutgoing(tx) /\ depositTxs[tx] >= 2) =>
      ledger[TxSender[tx]][USDC].deposited = InitialDeposit[TxSender[tx]] + TxAmount[tx]

\* C7: while a schedule with numTrades > 1 whose start() has returned is
\* neither completed nor being stopped, every start() call is rejected as
\* already running and leaves the config, tradesCompleted, the timer and the
\* persisted sessions and trades unchanged.
C7_StartWhileRunningRejected ==
  [][(/\ twapConfig # NoConfig
      /\ twapConfig.numTrades > 1
      /\ \A i \in DOMAIN starts : starts[i].pc = "done"
      /\ stopCalls = 0
      /\ \A s \in DOMAIN slices : slices[s].pc # "stopping"
      /\ \E cfg \in Configs, w \in Callers \cup {NoWallet} : StartCall(cfg, w))
     => /\ response' = "already_running"
        /\ UNCHANGED <<twapConfig, tradesCompleted, twapInterval, timers,
                       currentSessionId, currentWalletAddress, sessions, trades,
                       starts, slices>>]_vars

\* C7 witness: a start() has just been rejected as already running while a
\* two-trade schedule is running.
C7_Witness ==
  /\ response = "already_running"
  /\ twapConfig # NoConfig /\ twapConfig.numTrades > 1
  /\ \A i \in DOMAIN starts : starts[i].pc = "done"
  /\ stopCalls = 0
  /\ twapInterval # NoTimer

\* C8: when startTWAP's balance read finds deposited - withdrawn - traded of
\* the wallet below totalAmount (or no row), the call is rejected with the
\* insufficient-balance error; no session is persisted, no slice begins, no
\* timer is armed and the in-process scheduler state is unchanged.
C8_InsufficientBalanceRejected ==
  [][\A i \in DOMAIN starts :
       (/\ StartBalance(i)
        /\ LET r == ledger[starts[i].wallet][USDC]
           IN ~r.row \/ r.deposited - r.withdrawn - r.traded < starts[i].cfg.totalAmount)
       => /\ response' = "insufficient_balance"
          /\ starts'[i].pc = "done"
          /\ UNCHANGED <<schedVars, sessions, trades, slices>>]_vars

\* C8 witness: a start() for W1 has been rejected for insufficient balance
\* while W1's ledger holds less than the smallest valid totalAmount.
C8_Witness ==
  /\ response = "insufficient_balance"
  /\ ledger["W1"][USDC].deposited - ledger["W1"][USDC].withdrawn
       - ledger["W1"][USDC].traded < 2
  /\ \A i \in DOMAIN starts : starts[i].pc = "done"

\* C9: start() with totalAmount <= 0, numTrades <= 0 or intervalMs < 1000 is
\* rejected and changes nothing: no session, no trade, no timer, the in-process
\* state as before.
C9_InvalidConfigRejected ==
  [][\A cfg \in Configs, w \in Callers \cup {NoWallet} :
       (/\ StartCall(cfg, w)
        /\ (cfg.totalAmount <= 0 \/ cfg.numTrades <= 0 \/ cfg.intervalMs < 1000))
       => /\ response' \in {"invalid_amount", "invalid_trades", "invalid_interval",
                            "already_running"}
          /\ UNCHANGED <<schedVars, sessions, trades, starts, slices>>]_vars

\* C9 witness: a start() with a too short interval has been rejected with
\* nothing started.
C9_Witness ==
  /\ response = "invalid_interval"
  /\ twapConfig = NoConfig
  /\ sessions = <<>> /\ trades = <<>> /\ timers = {}

\* C10: when start() returns successfully, its first slice has finished
\* (the slice's trade row is success or failed and tradesCompleted >= 1), and
\* the recurring timer is armed exactly when numTrades > 1.
C10_FirstSliceBeforeReturn ==
  [][\A p \in DOMAIN starts :
       (/\ starts[p].pc \in {"created", "wait"}
        /\ p \in DOMAIN starts'
        /\ starts'[p].pc = "done"
        /\ response' = "started")
       => /\ tradesCompleted' >= 1
          /\ \E s \in DOMAIN slices :
               /\ slices[s].parent = p
               /\ trades'[s].row
               /\ trades'[s].status \in {"success", "failed"}
          /\ (p \in timers') <=> (starts[p].cfg.numTrades > 1)]_vars

\* C11: when a schedule whose recorded slices all succeeded, with no external
\* stop in progress, ends by itself (the completion test of a finishing slice
\* passes), tradesCompleted equals numTrades, exactly numTrades trade rows of
\* the session exist, each with amount_in = totalAmount / numTrades, the
\* session is marked completed (when the status write is applied) and no
\* timer stays armed.
C11_AutoCompletionExact ==
  [][\A s \in DOMAIN slices :
       (/\ slices[s].pc = "check"
        /\ slices'[s].pc \in {"stopping", "done"}
        /\ ScheduleComplete
        /\ currentSessionId # NoSession
        /\ stopCalls = 0
        /\ \A j \in DOMAIN trades :
             trades[j].session_id = currentSessionId =>
               trades[j].row /\ trades[j].status = "success")
       => /\ tradesCompleted = twapConfig.numTrades
          /\ Cardinality({j \in DOMAIN trades :
                            trades[j].session_id = currentSessionId})
               = twapConfig.numTrades
          /\ \A j \in DOMAIN trades :
               trades[j].session_id = currentSessionId =>
                 trades[j].amount_in = AmountPerTrade(twapConfig)
          /\ ops' = ops => sessions'[currentSessionId].status = "completed"
          /\ timers' = {} /\ twapInterval' = NoTimer]_vars

\* C12: a slice that fails (insufficient balance, quote or swap error) does
\* not touch the scheduler: config, timer and start calls are unchanged, no
\* other slice is begun in its place, its trade row becomes failed when the
\* status write is applied, and it goes on to be counted; every slice that is
\* counted adds exactly one to tradesCompleted; a slice that returns without
\* completing or stopping the schedule leaves the armed timers armed.
C12_FailedSliceIsolated ==
  [][\A s \in DOMAIN slices :
       /\ (slices[s].pc = "swap" /\ slices'[s].pc \notin {"swap", "post", "done"})
          => /\ slices'[s].pc = "count"
             /\ Len(slices') = Len(slices) /\ Len(trades') = Len(trades)
             /\ UNCHANGED <<twapConfig, twapInterval, timers, tradesCompleted,
                            currentSessionId, currentWalletAddress, starts,
                            response, ledger, botBalance>>
             /\ trades'[s].status # "success"
             /\ (/\ trades[s].row
                 /\ ops' = IF twapConfig = NoConfig
                              \/ InsufficientFunds(botBalance, slices[s].amt)
                           THEN ops ELSE ops + 1)
                => trades'[s].status = "failed"
       /\ (slices[s].pc = "count" /\ slices'[s].pc # "count" /\ slices'[s].pc # "done")
          => /\ slices'[s].pc = "check"
             /\ tradesCompleted' = tradesCompleted + 1
       /\ (slices[s].pc = "check" /\ slices'[s].pc = "done" /\ ~ScheduleComplete
           /\ slices[s].parent = 0 /\ Len(slices') = Len(slices) /\ starts' = starts)
          => timers' = timers /\ twapInterval' = twapInterval]_vars

\* C12 witness: in a two-trade schedule whose timer is armed, the first slice
\* has failed, was counted and its trade row is failed.
C12_Witness ==
  /\ twapConfig # NoConfig /\ twapConfig.numTrades = 2
  /\ tradesCompleted = 1
  /\ twapInterval # NoTimer /\ twapInterval \in timers
  /\ Len(trades) = 1 /\ trades[1].row /\ trades[1].status = "failed"
  /\ slices[1].pc = "done"

C14_StopStatusMatchesProgress ==
  [][\A i \in DOMAIN sessions :
       (/\ ~Restart
        /\ sessions[i].status = "active"
        /\ sessions'[i].status # "active")
       => /\ sessions'[i].stopped_at
          /\ sessions'[i].status \in {"completed", "stopped"}
          /\ sessions'[i].status = "completed"
               <=> sessions'[i].trades_completed = sessions'[i].total_trades]_vars

\* C15: stopTWAP called when the preceding call was a stopTWAP that has
\* returned, with no startTWAP in between or still running, succeeds again
\* with the same snapshot, changes no scheduler state and writes nothing to
\* the sessions table.
C15_SecondStopIsNoOp ==
  [][(/\ response = "stopped"
      /\ stopCalls = 0
      /\ \A i \in DOMAIN starts : starts[i].pc = "done"
      /\ StopCall)
     => /\ response' = "stopped"
        /\ stopCalls' = 0
        /\ UNCHANGED <<schedVars, sessions>>]_vars

\* C16: a slice of a schedule started for wallet W whose swap succeeded
\* increases W's traded[tokenIn] by the slice amount and then W's
\* deposited[tokenOut] by the recorded amountOut (when the ledger writes
\* themselves succeed); a slice that failed leaves the ledger unchanged.
C16_SlicePostsToLedger ==
  [][\A s \in DOMAIN slices :
       LET W == trades[s].wallet_address IN
       /\ (/\ slices[s].pc = "post" /\ slices'[s].pc # "post"
           /\ slices'[s].pc # "done"
           /\ W # NoWallet
           /\ ledger[W][USDC].row
           /\ ops' = ops)
          => /\ slices'[s].pc = "post2"
             /\ ledger' = [ledger EXCEPT ![W][USDC].traded = @ + slices[s].amt]
       /\ (slices[s].pc = "post2" /\ slices'[s].pc = "count" /\ ops' = ops)
          => ledger' = [ledger EXCEPT ![W][MOVE].row = TRUE,
                                      ![W][MOVE].deposited = @ + slices[s].out]
       /\ (slices[s].pc = "swap" /\ slices'[s].pc = "count")
          => ledger' = ledger
       /\ (slices[s].pc \in {"count", "check", "stopping"} /\ slices'[s].pc # slices[s].pc)
          => ledger' = ledger]_vars

\* C17: a slice of a schedule started for wallet W has its swap submitted only
\* when W's available ledger balance of tokenIn is at least the slice amount
\* at that time; with less, the slice fails and the custodial balance is not
\* spent.
C17_SwapOnlyWithinLedgerBalance ==
  [][\A s \in DOMAIN slices :
       LET W == trades[s].wallet_address IN
       (slices[s].pc = "swap" /\ slices'[s].pc # "swap" /\ ~Restart /\ W # NoWallet)
       => IF InsufficientFor(ledger, W, USDC, slices[s].amt)
            THEN /\ slices'[s].pc = "count"
                 /\ botBalance' = botBalance
                 /\ trades'[s].status # "success"
            ELSE botBalance' # botBalance => slices'[s].pc = "post"]_vars

\* C18: a withdrawal request whose amount exceeds the wallet's available
\* balance when the route reads it is rejected at that point: the request
\* ends with the insufficient-balance response, no transfer is made from the
\* custodial wallet, and the ledger and the withdrawal records are unchanged.
C18_OverdrawRejectedBeforeTransfer ==
  [][\A k \in DOMAIN withdraws :
       (/\ k \in DOMAIN withdraws'
        /\ withdraws[k].pc = "balance"
        /\ withdraws'[k].pc # "balance"
        /\ withdraws[k].amount > Available(ledger, withdraws[k].wallet, USDC))
       => /\ response' = "withdraw_insufficient"
          /\ withdraws'[k] = DoneWithdraw
          /\ UNCHANGED <<ledger, withdrawals, botBalance>>]_vars

C18_Witness ==
  /\ response = "withdraw_insufficient"
  /\ Len(withdraws) = 2
  /\ \A k \in DOMAIN withdraws : withdraws[k].pc = "done"
  /\ Len(withdrawals) = 1
  /\ botBalance = 2
  /\ ledger["W1"][USDC].withdrawn = 2

\* C19: in the withdrawal flow the wallet's withdrawn total grows only in the
\* step in which the transfer leaves the custodial wallet, and by the amount
\* transferred; a withdrawal row is written only by a request whose transfer
\* succeeded; a request whose transfer fails ends with an error and leaves
\* the ledger and the withdrawal records unchanged.
C19_RecordedOnlyAfterTransfer ==
  [][/\ \A w \in Wallets :
          ledger'[w][USDC].withdrawn # ledger[w][USDC].withdrawn
          => \E k \in DOMAIN withdraws :
               /\ withdraws[k].pc = "transfer"
               /\ withdraws[k].wallet = w
               /\ botBalance' = botBalance - withdraws[k].amount
               /\ ledger'[w][USDC].withdrawn =
                    ledger[w][USDC].withdrawn + withdraws[k].amount
     /\ \A k \in DOMAIN withdraws :
          (/\ k \in DOMAIN withdraws'
           /\ withdraws[k].pc = "transfer"
           /\ withdraws'[k].pc # "transfer")
          => IF botBalance' = botBalance
               THEN /\ response' = "withdraw_error"
                    /\ withdraws'[k] = DoneWithdraw
                    /\ UNCHANGED <<ledger, withdrawals>>
               ELSE /\ botBalance' = botBalance - withdraws[k].amount
                    /\ withdraws'[k].pc \in {"record", "error"}
     /\ \A k \in DOMAIN withdraws' :
          withdraws'[k].pc \in {"record", "error"}
          => k \in DOMAIN withdraws /\ withdraws[k].pc \in {"transfer", withdraws'[k].pc}
     /\ withdrawals' # withdrawals
        => \E k \in DOMAIN withdraws :
             /\ withdraws[k].pc = "record"
             /\ withdrawals' = Append(withdrawals, [wallet |-> withdraws[k].wallet,
                                                    amount |-> withdraws[k].amount,
                                                    status |-> "success"])]_vars

C19_Witness ==
  /\ response = "withdraw_error"
  /\ Len(withdraws) = 1 /\ withdraws[1].pc = "done"
  /\ Len(starts) = 0
  /\ ops = 2
  /\ botBalance = InitialDeposit["W1"] + InitialDeposit["W2"]
  /\ \A w \in Wallets : ledger[w][USDC].withdrawn = 0
  /\ withdrawals = <<>>

\* C20: when the process has been started again and restoreActiveSession has
\* run without a database error, no persisted session is active, and nothing
\* is resumed: no timer is armed, no config is set, no slice is running.
C20_NoActiveSessionAfterRestore ==
  [][(Restart /\ ops' = ops + 1)
     => /\ \A i \in DOMAIN sessions' : sessions'[i].status # "active"
        /\ timers' = {} /\ twapInterval' = NoTimer /\ twapConfig' = NoConfig
        /\ \A s \in DOMAIN slices' : slices'[s].pc = "done"]_vars

\* C21: every started schedule ends by itself.  In a state where no handler
\* is in flight and no timer tick can do anything any more (no timer is armed,
\* or the config is already cleared so that every tick returns at once), the
\* scheduler is inactive: no timer is left armed and getTWAPStatus().isActive
\* is false.  A state breaking this is one the scheduler never leaves
\* without a further call from outside, however long the ticks keep firing.
C21_SettledMeansInactive ==
  (InFlight = 0 /\ (timers = {} \/ twapConfig = NoConfig))
  => (timers = {} /\ twapInterval = NoTimer /\ ~IsActive)

\* C22: a failed persistence write never aborts the start, a slice or the
\* schedule.  A start whose createTWAPSession failed (no session id) still
\* sets the config and begins its first slice; a slice whose insertTrade
\* failed (no row) still submits its swap; a slice is counted whether or not
\* updateTradeStatus and updateTWAPSession succeeded; and the auto-completion
\* cancels the timer and clears the config whether or not its session update
\* succeeded.
C22_PersistenceFailureNotFatal ==
  [][/\ \A i \in DOMAIN starts' :
          (starts'[i].pc = "created" /\ (i \in DOMAIN starts => starts[i].pc = "balance"))
          => twapConfig' = starts'[i].cfg /\ tradesCompleted' = 0
     /\ \A i \in DOMAIN starts :
          (/\ i \in DOMAIN starts'
           /\ starts[i].pc = "created" /\ starts'[i].pc # "created"
           /\ twapConfig # NoConfig)
          => /\ starts'[i].pc = "wait"
             /\ Len(slices') = Len(slices) + 1
             /\ slices'[Len(slices')].pc = "swap"
     /\ \A s \in DOMAIN slices :
          /\ (/\ slices[s].pc = "swap" /\ slices'[s].pc # "swap" /\ ~Restart
              /\ twapConfig # NoConfig
              /\ ~InsufficientFunds(botBalance, slices[s].amt)
              /\ ops' = ops)
             => slices'[s].pc = "post" /\ botBalance' = botBalance - slices[s].amt
          /\ (slices[s].pc \in {"post", "post2", "count"} /\ slices'[s].pc # slices[s].pc)
             => \/ Restart
                \/ slices'[s].pc \in {"post2", "count"} /\ tradesCompleted' = tradesCompleted
                \/ slices'[s].pc = "check" /\ tradesCompleted' = tradesCompleted + 1
          /\ (slices[s].pc = "check" /\ slices'[s].pc # "check" /\ ~Restart /\ ScheduleComplete)
             => /\ twapInterval \notin timers'
                /\ slices'[s].pc = "stopping" \/ twapConfig' = NoConfig
          /\ (slices[s].pc = "stopping" /\ slices'[s].pc # "stopping" /\ ~Restart)
             => twapConfig' = NoConfig /\ slices'[s].pc = "done"]_vars

\* Every write of a one-trade schedule failed or found no row, and the
\* schedule still ran its slice and ended.
C22_Witness ==
  /\ sessions = <<>>
  /\ Len(trades) = 1 /\ ~trades[1].row
  /\ Len(slices) = 1 /\ slices[1].pc = "done"
  /\ tradesCompleted = 1
  /\ botBalance = InitialDeposit["W1"] + InitialDeposit["W2"] - 2
  /\ twapConfig = NoConfig /\ timers = {}
  /\ response = "started"

C25_NoOverlappingSlices ==
  [][\A t \in timers :
       (Tick(t) /\ Len(slices') = Len(slices) + 1)
       => \A s \in DOMAIN slices : slices[s].pc = "done"]_vars

\* C26: a slice started for wallet W whose swap has succeeded, and which finds
\* the schedule already stopped (config and wallet cleared by stopTWAP) when
\* it resumes, still posts its result: W's traded[tokenIn] grows by the slice
\* amount and then W's deposited[tokenOut] by amountOut, and its TradeRecord
\* is not left pending or failed.
C26_InFlightSliceRecordedAfterStop ==
  [][\A s \in DOMAIN slices :
       LET W == trades[s].wallet_address IN
       (/\ slices[s].pc = "post"
        /\ slices'[s].pc \notin {"post", "done"}
        /\ twapConfig = NoConfig
        /\ W # NoWallet
        /\ ledger[W][USDC].row
        /\ ops' = ops)
       => /\ slices'[s].pc = "post2"
          /\ ledger' = [ledger EXCEPT ![W][USDC].traded = @ + slices[s].amt]
          /\ trades[s].row => trades'[s].status # "failed"]_vars

\* C27: when stopTWAP returns to its caller the scheduler is inactive (no
\* timer armed, no timer handle, isActive false), and while the config stays
\* cleared no timer is armed: a startTWAP that was awaiting its first slice
\* or its session when the stop ran does not arm the timer afterwards.
C27_InactiveAfterStop ==
  [][/\ (stopCalls' < stopCalls \/ (StopCall /\ stopCalls' = stopCalls))
        => /\ timers' = {}
           /\ twapInterval' = NoTimer
           /\ ~(twapInterval' # NoTimer \/ (twapConfig' # NoConfig /\ tradesCompleted' = 0))
     /\ (twapConfig = NoConfig /\ twapConfig' = NoConfig)
        => timers' \subseteq timers]_vars

\* C28: when two scans overlap and both hold the same deposit transaction,
\* the transaction is credited once: a scan credits it only if the sender's
\* deposited balance has not been credited with it yet.
C28_OverlappingScansCreditOnce ==
  [][\A k \in DOMAIN scans :
       (/\ k \in DOMAIN scans'
        /\ scans[k].pc = "lookup"
        /\ scans'[k].pc = "insert"
        /\ \E j \in DOMAIN scans \ {k} :
             /\ scans[j].pc \in {"lookup", "insert", "recorded"}
             /\ Head(scans[j].todo) = Head(scans[k].todo))
       => ledger[TxSender[Head(scans[k].todo)]][USDC].deposited
            = InitialDeposit[TxSender[Head(scans[k].todo)]]]_vars

\* C29: a transaction whose balance increment was applied but whose
\* deposit_transactions insert failed is not credited again by a later scan.
\* With no restart so far and no other scan in the middle of recording the
\* transaction, a scan credits it only if it has not been credited yet.
C29_FailedInsertNotCreditedAgain ==
  [][\A k \in DOMAIN scans :
       (/\ k \in DOMAIN scans'
        /\ scans[k].pc = "lookup"
        /\ scans'[k].pc = "insert"
        /\ epoch = 0
        /\ \A j \in DOMAIN scans \ {k} :
             scans[j].pc \in {"lookup", "insert", "recorded"}
             => Head(scans[j].todo) # Head(scans[k].todo))
       => ledger[TxSender[Head(scans[k].todo)]][USDC].deposited
            = InitialDeposit[TxSender[Head(scans[k].todo)]]]_vars

\* C30: an error raised while a scan looks up or records one transaction does
\* not end the scan: when unprocessed transactions remain in the fetched
\* window, the scan goes on to inspect them.
C30_ScanSurvivesTransactionError ==
  [][\A k \in DOMAIN scans :
       (/\ k \in DOMAIN scans'
        /\ scans[k].pc \in {"lookup", "insert"}
        /\ scans'[k] # scans[k]
        /\ ops' = ops + 1
        /\ SkipProcessed(Tail(scans[k].todo), processedTxHashes) # <<>>)
       => scans'[k].pc # "done"]_vars

C32_LedgerUpdatesAdditive ==
  [][/\ \A w \in Wallets, t \in Tokens :
          /\ ledger[w][t].row => ledger'[w][t].row
          /\ ledger'[w][t].deposited >= ledger[w][t].deposited
          /\ ledger'[w][t].withdrawn >= ledger[w][t].withdrawn
          /\ ledger'[w][t].traded >= ledger[w][t].traded
     /\ \A s \in DOMAIN slices :
          /\ (slices[s].pc = "post" /\ slices'[s].pc = "post2")
             => ledger' = [ledger EXCEPT ![currentWalletAddress][USDC].traded =
                                            @ + slices[s].amt]
          /\ (slices[s].pc = "post2" /\ slices'[s].pc = "count" /\ ops' = ops)
             => ledger' = [ledger EXCEPT ![slices[s].wallet][MOVE].row = TRUE,
                                         ![slices[s].wallet][MOVE].deposited =
                                            @ + slices[s].out]
     /\ \A k \in DOMAIN withdraws :
          (k \in DOMAIN withdraws'
           /\ withdraws[k].pc = "transfer" /\ withdraws'[k].pc = "record")
          => ledger' = [ledger EXCEPT ![withdraws[k].wallet][USDC].withdrawn =
                                         @ + withdraws[k].amount]
     /\ botBalance' > botBalance
          => \E w \in Wallets :
               ledger' = [ledger EXCEPT ![w][USDC].deposited =
                                           @ + (botBalance' - botBalance)]]_vars

\* A slice and a withdrawal of the same wallet are both between their ledger
\* write and their return, after a deposit: all three columns of the wallet's
\* USDC row have been added to.
C32_Witness ==
  /\ \E s \in DOMAIN slices : slices[s].pc = "post2" /\ slices[s].wallet = "W1"
  /\ \E k \in DOMAIN withdraws : withdraws[k].pc = "record" /\ withdraws[k].wallet = "W1"
  /\ ledger["W1"][USDC].deposited > InitialDeposit["W1"]
  /\ ledger["W1"][USDC].withdrawn > 0
  /\ ledger["W1"][USDC].traded > 0

\* C33: every executed slice has exactly one trade row: there are as many
\* trade records as slice executions, and when a slice comes out of its swap
\* attempt its row exists and has left the pending status for success or
\* failed.
C33_OneSettledTradeRecordPerSlice ==
  [][/\ Len(trades') = Len(slices')
     /\ \A s \in DOMAIN slices :
          (slices[s].pc = "swap" /\ slices'[s].pc \in {"post", "count"})
          => /\ trades'[s].row
             /\ trades'[s].status \in {"success", "failed"}]_vars

\* C34: every slice that reaches its count raises tradesCompleted by one and,
\* unless the write itself fails, raises trades_completed on the row of the
\* session it was started under by one as well, whether or not stop was
\* called meanwhile.
C34_FinishedSlicesCountedOnSession ==
  [][\A s \in DOMAIN slices :
       (slices[s].pc \in {"post", "count"} /\ slices'[s].pc = "check")
       => /\ tradesCompleted' = tradesCompleted + 1
          /\ (trades[s].session_id # NoSession /\ ops' = ops)
             => sessions'[trades[s].session_id].trades_completed
                  = sessions[trades[s].session_id].trades_completed + 1]_vars

\* C35: withRetry runs the operation at most 3 times under withRPCRetry and at
\* most 2 times under withTxRetry; a call that has returned or thrown makes no
\* further attempt; an attempt whose operation succeeds returns that result at
\* once; and an attempt failing with an error that matches no retryable
\* pattern rethrows that error at once, so after one attempt when it is the
\* first.
C35_BoundedRetry ==
  [][\A k \in DOMAIN retries :
       LET r == retries[k]
           r2 == retries'[k]
           res == OperationResult(r.op, r2.outcome)
       IN /\ r2.attempt <= (IF r.op = "swap" THEN 2 ELSE 3)
          /\ r.pc \in {"returned", "thrown"} => r2 = r
          /\ (r.pc = "attempt" /\ r2 # r /\ res.ok)
             => /\ r2.pc = "returned"
                /\ r2.value = res.value
                /\ r2.attempt = r.attempt
          /\ (r.pc = "attempt" /\ r2 # r /\ ~res.ok
              /\ ~IsRetryableError(res.error, OptionsOf(r.op).retryableErrors))
             => /\ r2.pc = "thrown"
                /\ r2.error = res.error
                /\ r2.attempt = r.attempt]_vars

\* One call has thrown a non-retryable error after a single attempt, one has
\* returned on its second attempt, and a submission has thrown a retryable
\* error on its second and last attempt.
C35_Witness ==
  /\ \E k \in DOMAIN retries :
       /\ retries[k].pc = "thrown" /\ retries[k].attempt = 1
       /\ retries[k].error = "INSUFFICIENT_BALANCE"
  /\ \E k \in DOMAIN retries :
       retries[k].op = "quote" /\ retries[k].pc = "returned" /\ retries[k].attempt = 2
  /\ \E k \in DOMAIN retries :
       /\ retries[k].op = "swap" /\ retries[k].pc = "thrown" /\ retries[k].attempt = 2
       /\ retries[k].error = "Request timeout"

\* C36: a balance fetch whose request to the node fails is never answered
\* with a balance: a transient failure is retried while attempts are left,
\* and otherwise the error is thrown to the caller.
C36_FailedBalanceFetchSurfaces ==
  [][\A k \in DOMAIN retries :
       (/\ retries[k].op = "balance"
        /\ retries[k].pc = "attempt"
        /\ retries'[k] # retries[k]
        /\ retries'[k].outcome \in ErrorMessages)
       => /\ retries'[k].pc \in {"sleep", "thrown"}
          /\ (IsRetryableError(retries'[k].outcome, RPCOptions.retryableErrors)
              /\ retries[k].attempt < 3)
             => retries'[k].pc = "sleep"]_vars

\* C37: while a schedule is accepted and neither completed nor being stopped
\* (a config is present, fewer slices than numTrades are counted, no stopTWAP
\* is under way), getTWAPStatus().isActive is true.
C37_ActiveUntilCompletedOrStopped ==
  (/\ twapConfig # NoConfig
   /\ ~ScheduleComplete
   /\ stopCalls = 0
   /\ \A s \in DOMAIN slices : slices[s].pc # "stopping")
  => IsActive

\* C38: at most one recurring timer is armed; an armed timer is the one the
\* twapInterval handle refers to; and a handle is held only while a config is
\* present.
C38_SingleTimerWithConfig ==
  /\ Cardinality(timers) <= 1
  /\ timers # {} => timers = {twapInterval}
  /\ twapInterval # NoTimer => twapConfig # NoConfig

\* C39: the first slice of a start request that carried no wallet address,
\* and so was checked against no ledger balance, never executes a swap: it
\* does not lower the custodial wallet's balance.
C39_NoSwapWithoutLedgerCheck ==
  [][\A s \in DOMAIN slices :
       (/\ slices[s].pc = "swap"
        /\ slices[s].parent # 0
        /\ starts[slices[s].parent].wallet = NoWallet
        /\ slices'[s].pc # "swap")
       => botBalance' >= botBalance]_vars

\* C40: recordTrade's two increments go together: the step that ends its
\* first statement successfully has added the input amount to traded, and the
\* step by which a slice leaves the point between the two statements has
\* added the output amount to deposited of the output token.
C40_RecordTradeAsUnit ==
  [][\A s \in DOMAIN slices :
       /\ (slices[s].pc = "post" /\ slices'[s].pc = "post2")
          => ledger'[currentWalletAddress][USDC].traded
               = ledger[currentWalletAddress][USDC].traded + slices[s].amt
       /\ (slices[s].pc = "post2" /\ slices'[s].pc # "post2")
          => ledger'[slices[s].wallet][MOVE].deposited
               = ledger[slices[s].wallet][MOVE].deposited + slices[s].out]_vars
====
